---- MODULE Spec2Model ----
(***************************************************************************)
(* math-parser: scanner -> parser -> expression tree, with the tree's      *)
(* simplify / differentiate / evaluate / format algorithms.                *)
(*                                                                         *)
(* Text is a sequence of one-character strings.  Characters python treats  *)
(* specially but that are not ASCII are named: "sup0".."sup9" are the      *)
(* superscript digits of SUPERSCRIPTS, "bullet" is the product dot.        *)
(* Numbers are exact rationals <<n, d>> in lowest terms with d > 0.        *)
(* A token is <<kind>> or <<kind, payload>>; a tree is <<class, ...>>.     *)
(***************************************************************************)
EXTENDS Integers, Sequences, FiniteSets, TLC

VARIABLES pc, text, rawTokens, tokens, parsed, expr, self, a, b, passes,
          simplified, diff, m, value

vars == <<pc, text, rawTokens, tokens, parsed, expr, self, a, b, passes,
          simplified, diff, m, value>>

\* ------------------------------------------------------------------ bounds

\* Longest input text typed at the prompt.
MaxLen == 4

\* Most operator nodes in a hand-built expression tree.
MaxNodes == 2

\* ------------------------------------------------------------- characters

Digits == {"0", "1", "2", "3", "4", "5", "6", "7", "8", "9"}

SuperscriptDigits ==
    {"sup0", "sup1", "sup2", "sup3", "sup4", "sup5", "sup6", "sup7", "sup8", "sup9"}

Letters == {"a", "b", "x", "y"}

\* str.isnumeric(): decimal digits and the superscript digits alike.
IsNumeric(c) == c \in Digits \cup SuperscriptDigits

IsAlpha(c) == c \in Letters

IsSpace(c) == c = " "

DigitValue(c) ==
    CASE c = "0" -> 0 [] c = "1" -> 1 [] c = "2" -> 2 [] c = "3" -> 3
      [] c = "4" -> 4 [] c = "5" -> 5 [] c = "6" -> 6 [] c = "7" -> 7
      [] c = "8" -> 8 [] c = "9" -> 9

DigitChar(n) ==
    CASE n = 0 -> "0" [] n = 1 -> "1" [] n = 2 -> "2" [] n = 3 -> "3"
      [] n = 4 -> "4" [] n = 5 -> "5" [] n = 6 -> "6" [] n = 7 -> "7"
      [] n = 8 -> "8" [] n = 9 -> "9"

\* SUPERSCRIPTS: digit -> superscript digit; str.translate leaves the rest.
SUPERSCRIPTS(c) ==
    CASE c = "0" -> "sup0" [] c = "1" -> "sup1" [] c = "2" -> "sup2"
      [] c = "3" -> "sup3" [] c = "4" -> "sup4" [] c = "5" -> "sup5"
      [] c = "6" -> "sup6" [] c = "7" -> "sup7" [] c = "8" -> "sup8"
      [] c = "9" -> "sup9" [] OTHER -> c

\* ---------------------------------------------------------------- numbers

Abs(n) == IF n < 0 THEN -n ELSE n

RECURSIVE Gcd(_, _)
Gcd(x, y) == IF y = 0 THEN x ELSE Gcd(y, x % y)

RECURSIVE IntPow(_, _)
IntPow(x, k) == IF k = 0 THEN 1 ELSE x * IntPow(x, k - 1)

\* The rational n/d (d # 0) in lowest terms with a positive denominator.
Rat(n, d) ==
    LET g == Gcd(Abs(n), Abs(d))
        s == IF d < 0 THEN -1 ELSE 1
    IN  <<(s * n) \div g, (s * d) \div g>>

Whole(n) == <<n, 1>>

IsZero(q) == q[1] = 0

IsInteger(q) == q[2] = 1

RatAdd(p, q) == Rat(p[1] * q[2] + q[1] * p[2], p[2] * q[2])

RatSub(p, q) == Rat(p[1] * q[2] - q[1] * p[2], p[2] * q[2])

RatMul(p, q) == Rat(p[1] * q[1], p[2] * q[2])

\* q # 0
RatDiv(p, q) == Rat(p[1] * q[2], p[2] * q[1])

\* p ** k for an integer k; p # 0 when k < 0.
RatPow(p, k) ==
    IF k >= 0 THEN Rat(IntPow(p[1], k), IntPow(p[2], k))
    ELSE Rat(IntPow(p[2], -k), IntPow(p[1], -k))

\* ----------------------------------------------------------------- tokens

OperatorKinds == {"Plus", "Minus", "Multiply", "Divide", "Exponent"}

Plus == <<"Plus">>
Minus == <<"Minus">>
Multiply == <<"Multiply">>
Divide == <<"Divide">>
Exponent == <<"Exponent">>
OpenBracket == <<"OpenBracket">>
CloseBracket == <<"CloseBracket">>
Numeric(num) == <<"Numeric", num>>
Char(char) == <<"Char", char>>

Kind(t) == t[1]

\* ---------------------------------------------------------------- scanner

\* float(s) accepts s: decimal digits with at most one point (s holds a digit
\* or a superscript first, and only numeric characters and points).
FloatAccepts(s) ==
    /\ \A i \in 1..Len(s) : s[i] \in Digits \cup {"."}
    /\ Cardinality({i \in 1..Len(s) : s[i] = "."}) <= 1

RECURSIVE DigitsValue(_)
DigitsValue(s) ==
    IF s = <<>> THEN 0
    ELSE 10 * DigitsValue(SubSeq(s, 1, Len(s) - 1)) + DigitValue(s[Len(s)])

\* float(s), for an s it accepts.
Float(s) ==
    LET points == {i \in 1..Len(s) : s[i] = "."}
        p == IF points = {} THEN Len(s) + 1 ELSE CHOOSE i \in points : TRUE
        whole == SubSeq(s, 1, p - 1)
        frac == SubSeq(s, p + 1, Len(s))
    IN  Rat(DigitsValue(whole \o frac), IntPow(10, Len(frac)))

\* Scanner.number's loop: the cursor after the run of numeric characters and points.
RECURSIVE NumberEnd(_, _)
NumberEnd(t, current) ==
    IF current < Len(t) /\ (IsNumeric(t[current + 1]) \/ t[current + 1] = ".")
    THEN NumberEnd(t, current + 1)
    ELSE current

\* Scanner.char: one Char token named text[_start:_current].
ScanChar(t, start, current) == Char(SubSeq(t, start + 1, current))

\* Scanner.scan_token at cursor _start = current: the cursor, the tokens and
\* the error it leaves.
ScanToken(t, current, toks) ==
    LET c == t[current + 1]
        next == current + 1
        add(tok) == [err |-> "none", current |-> next, toks |-> Append(toks, tok)]
    IN  CASE c = "(" -> add(OpenBracket)
          [] c = ")" -> add(CloseBracket)
          [] c = "+" -> add(Plus)
          [] c = "-" -> add(Minus)
          [] c = "*" -> add(Multiply)
          [] c = "/" -> add(Divide)
          [] c = "^" -> add(Exponent)
          [] IsNumeric(c) ->
                LET end == NumberEnd(t, next)
                    lexeme == SubSeq(t, current + 1, end)
                IN  IF FloatAccepts(lexeme)
                    THEN [err |-> "none", current |-> end,
                          toks |-> Append(toks, Numeric(Float(lexeme)))]
                    ELSE [err |-> "ValueError", current |-> end, toks |-> toks]
          [] IsAlpha(c) -> add(ScanChar(t, current, next))
          [] IsSpace(c) -> [err |-> "none", current |-> next, toks |-> toks]
          [] OTHER -> [err |-> "none", current |-> next, toks |-> toks]

\* scan_tokens' first loop: scan_token until the cursor is at the end.
RECURSIVE ScanLoop(_, _, _)
ScanLoop(t, current, toks) ==
    IF current > Len(t) - 1
    THEN [err |-> "none", current |-> current, toks |-> toks]
    ELSE LET r == ScanToken(t, current, toks)
         IN  IF r.err # "none" THEN r ELSE ScanLoop(t, r.current, r.toks)

\* ImplicitMultiply with the (CloseBracket, Char) pattern left out.
ImplicitMultiplyNoCloseChar(prev, token) ==
    \/ Kind(prev) = "Numeric" /\ Kind(token) = "Char"
    \/ Kind(prev) \in {"Numeric", "Char"} /\ Kind(token) = "OpenBracket"
    \/ Kind(prev) = "CloseBracket" /\ Kind(token) = "OpenBracket"

\* The match of scan_tokens' second loop on (prev, token).
ImplicitMultiply(prev, token) ==
    \/ Kind(prev) = "Numeric" /\ Kind(token) = "Char"
    \/ Kind(prev) \in {"Numeric", "Char"} /\ Kind(token) = "OpenBracket"
    \/ Kind(prev) = "CloseBracket" /\ Kind(token) = "Char"
    \/ Kind(prev) = "CloseBracket" /\ Kind(token) = "OpenBracket"

\* scan_tokens' second loop over _tokens[i..], prev being the token before.
RECURSIVE InsertLoop(_, _, _)
InsertLoop(toks, i, out) ==
    IF i > Len(toks) THEN out
    ELSE LET token == toks[i]
             ins == IF i > 1 /\ ImplicitMultiply(toks[i - 1], token)
                    THEN Append(out, Multiply) ELSE out
         IN  InsertLoop(toks, i + 1, Append(ins, token))

\* ------------------------------------------------------------------ trees

NoTree == <<"None">>

Constant(num) == <<"Constant", num>>
Unknown(char) == <<"Unknown", char>>
Addition(left, right) == <<"Addition", left, right>>
Subtraction(left, right) == <<"Subtraction", left, right>>
Product(left, right) == <<"Product", left, right>>
Quotient(numer, denom) == <<"Quotient", numer, denom>>
Power(base, power) == <<"Power", base, power>>

Class(e) == e[1]

IsLeaf(e) == Class(e) \in {"Constant", "Unknown"}

\* ----------------------------------------------------------------- parser

build_binary_math_object(left, operator, right) ==
    CASE Kind(operator) = "Plus" -> Addition(left, right)
      [] Kind(operator) = "Minus" -> Subtraction(left, right)
      [] Kind(operator) = "Multiply" -> Product(left, right)
      [] Kind(operator) = "Divide" -> Quotient(left, right)
      [] Kind(operator) = "Exponent" -> Power(left, right)

\* Parser.check at cursor current (tokens read so far).
Check(toks, current, types) ==
    ~(current > Len(toks) - 1) /\ Kind(toks[current + 1]) \in types

Raised(current) == [err |-> "ValueError", tree |-> NoTree, current |-> current]

Returned(tree, current) == [err |-> "none", tree |-> tree, current |-> current]

RECURSIVE Term(_, _), TermLoop(_, _, _), Factor(_, _), FactorLoop(_, _, _)
RECURSIVE ExponentRule(_, _), ExponentLoop(_, _, _), Primary(_, _)

\* Primary returning the bracketed expression without requiring the ")".
PrimaryNoCloseCheck(toks, current) ==
    IF Check(toks, current, {"Numeric"})
    THEN Returned(Constant(toks[current + 1][2]), current + 1)
    ELSE IF Check(toks, current, {"Char"})
    THEN Returned(Unknown(toks[current + 1][2]), current + 1)
    ELSE IF Check(toks, current, {"OpenBracket"})
    THEN LET r == Term(toks, current + 1)
         IN  IF r.err # "none" THEN r
             ELSE IF Check(toks, r.current, {"CloseBracket"})
             THEN Returned(r.tree, r.current + 1)
             ELSE Returned(r.tree, r.current)
    ELSE Raised(current)

\* Parser.primary
Primary(toks, current) ==
    IF Check(toks, current, {"Numeric"})
    THEN Returned(Constant(toks[current + 1][2]), current + 1)
    ELSE IF Check(toks, current, {"Char"})
    THEN Returned(Unknown(toks[current + 1][2]), current + 1)
    ELSE IF Check(toks, current, {"OpenBracket"})
    THEN LET r == Term(toks, current + 1)
         IN  IF r.err # "none" THEN r
             ELSE IF Check(toks, r.current, {"CloseBracket"})
             THEN Returned(r.tree, r.current + 1)
             ELSE Raised(r.current)
    ELSE Raised(current)

\* The while loop of Parser.exponent, left being built so far.
ExponentLoop(toks, left, current) ==
    IF Check(toks, current, {"Exponent"})
    THEN LET r == ExponentRule(toks, current + 1)
         IN  IF r.err # "none" THEN r
             ELSE ExponentLoop(toks, build_binary_math_object(left, Exponent, r.tree),
                               r.current)
    ELSE Returned(left, current)

\* Parser.exponent
ExponentRule(toks, current) ==
    LET l == Primary(toks, current)
    IN  IF l.err # "none" THEN l ELSE ExponentLoop(toks, l.tree, l.current)

\* The while loop of Parser.factor
FactorLoop(toks, e, current) ==
    IF Check(toks, current, {"Multiply", "Divide"})
    THEN LET operator == toks[current + 1]
             r == ExponentRule(toks, current + 1)
         IN  IF r.err # "none" THEN r
             ELSE FactorLoop(toks, build_binary_math_object(e, operator, r.tree),
                             r.current)
    ELSE Returned(e, current)

\* Parser.factor
Factor(toks, current) ==
    LET l == ExponentRule(toks, current)
    IN  IF l.err # "none" THEN l ELSE FactorLoop(toks, l.tree, l.current)

\* The while loop of Parser.term
TermLoop(toks, e, current) ==
    IF Check(toks, current, {"Plus", "Minus"})
    THEN LET operator == toks[current + 1]
             r == Factor(toks, current + 1)
         IN  IF r.err # "none" THEN r
             ELSE TermLoop(toks, build_binary_math_object(e, operator, r.tree),
                           r.current)
    ELSE Returned(e, current)

\* Parser.term
Term(toks, current) ==
    LET l == Factor(toks, current)
    IN  IF l.err # "none" THEN l ELSE TermLoop(toks, l.tree, l.current)

\* Parser(tokens).expression(), the cursor starting at 0.
Expression(toks) == Term(toks, 0)

\* --------------------------------------------------------------- simplify

\* Nodes of a tree, leaves included.
RECURSIVE Size(_)
Size(e) == IF IsLeaf(e) THEN 1 ELSE 1 + Size(e[2]) + Size(e[3])

Zero == Constant(Whole(0))

One == Constant(Whole(1))

\* Addition._simplify on the simplified operands (with _sum_simplify).
AdditionSimplify(x, y) ==
    IF x = Zero THEN y
    ELSE IF y = Zero THEN x
    ELSE Addition(x, y)

\* Subtraction._simplify on the simplified operands (with _sum_simplify).
SubtractionSimplify(x, y) ==
    IF x = y THEN Zero
    ELSE IF x = Zero THEN y
    ELSE IF y = Zero THEN x
    ELSE Subtraction(x, y)

\* ProductSimplify putting the operands back in the other order.
ProductSimplifySwap(x, y) ==
    IF x = Zero \/ y = Zero THEN Zero
    ELSE IF x = One THEN y
    ELSE IF y = One THEN x
    ELSE Product(y, x)

\* Product._simplify on the simplified operands.
ProductSimplify(x, y) ==
    IF x = Zero \/ y = Zero THEN Zero
    ELSE IF x = One THEN y
    ELSE IF y = One THEN x
    ELSE Product(x, y)

\* One pass: MathExpression._simplify and its overrides.
RECURSIVE _simplify(_)
_simplify(e) ==
    CASE Class(e) = "Addition" -> AdditionSimplify(_simplify(e[2]), _simplify(e[3]))
      [] Class(e) = "Subtraction" ->
            SubtractionSimplify(_simplify(e[2]), _simplify(e[3]))
      [] Class(e) = "Product" -> ProductSimplify(_simplify(e[2]), _simplify(e[3]))
      [] Class(e) = "Quotient" ->
            IF e[2] = e[3] THEN One
            ELSE Quotient(_simplify(e[2]), _simplify(e[3]))
      [] Class(e) = "Power" ->
            IF e[3] = One THEN _simplify(e[2])
            ELSE Power(_simplify(e[2]), e[3])
      [] OTHER -> e

\* ---------------------------------------------------------- differentiate

NotImplementedError == <<"NotImplementedError">>

\* PowerDifferentiate falling back to Constant(0) instead of raising.
PowerDifferentiateFallback(base, power, d) ==
    IF Class(base) = "Constant" /\ Class(power) = "Constant" THEN Zero
    ELSE IF Class(power) = "Constant"
    THEN IF d = NotImplementedError THEN NotImplementedError
         ELSE Product(Product(Constant(power[2]),
                              Power(base, Constant(RatSub(power[2], Whole(1))))),
                      d)
    ELSE Zero

\* Power.differentiate, d being base.differentiate() where the match needs it.
PowerDifferentiate(base, power, d) ==
    IF Class(base) = "Constant" /\ Class(power) = "Constant" THEN Zero
    ELSE IF Class(power) = "Constant"
    THEN IF d = NotImplementedError THEN NotImplementedError
         ELSE Product(Product(Constant(power[2]),
                              Power(base, Constant(RatSub(power[2], Whole(1))))),
                      d)
    ELSE NotImplementedError

\* differentiate() of each class; an exception raised below propagates.
RECURSIVE Differentiate(_)
Differentiate(e) ==
    CASE Class(e) = "Constant" -> Zero
      [] Class(e) = "Unknown" -> One
      [] Class(e) = "Power" ->
            PowerDifferentiate(e[2], e[3], Differentiate(e[2]))
      [] OTHER ->
            LET l == Differentiate(e[2])
                r == Differentiate(e[3])
            IN  IF l = NotImplementedError \/ r = NotImplementedError
                THEN NotImplementedError
                ELSE CASE Class(e) = "Addition" -> Addition(l, r)
                       [] Class(e) = "Subtraction" -> Subtraction(l, r)
                       [] Class(e) = "Product" ->
                             Addition(Product(l, e[3]), Product(e[2], r))
                       [] Class(e) = "Quotient" ->
                             Quotient(Subtraction(Product(e[3], l), Product(e[2], r)),
                                      Power(e[3], Constant(Whole(2))))

\* --------------------------------------------------------------- evaluate

Value(num) == [err |-> "none", num |-> num]

Failure(err) == [err |-> err, num |-> Whole(0)]

\* Quotient.evaluate on the operands' values: float division.
QuotientEvaluate(n, d) ==
    IF IsZero(d) THEN Failure("ZeroDivisionError") ELSE Value(RatDiv(n, d))

\* Power.evaluate on the operands' values, for an integral exponent.
PowerEvaluate(x, p) ==
    CASE IsInteger(p) /\ IsZero(x) /\ p[1] < 0 -> Failure("ZeroDivisionError")
      [] IsInteger(p) /\ ~(IsZero(x) /\ p[1] < 0) -> Value(RatPow(x, p[1]))

\* evaluate(unknown_map) of each class; unknown_map is a function on names.
RECURSIVE Evaluate(_, _)
Evaluate(e, unknown_map) ==
    CASE Class(e) = "Constant" -> Value(e[2])
      [] Class(e) = "Unknown" ->
            IF e[2] \in DOMAIN unknown_map THEN Value(unknown_map[e[2]])
            ELSE Failure("KeyError")
      [] OTHER ->
            LET l == Evaluate(e[2], unknown_map)
                r == Evaluate(e[3], unknown_map)
            IN  IF l.err # "none" THEN l
                ELSE IF r.err # "none" THEN r
                ELSE CASE Class(e) = "Addition" -> Value(RatAdd(l.num, r.num))
                       [] Class(e) = "Subtraction" -> Value(RatSub(l.num, r.num))
                       [] Class(e) = "Product" -> Value(RatMul(l.num, r.num))
                       [] Class(e) = "Quotient" -> QuotientEvaluate(l.num, r.num)
                       [] Class(e) = "Power" -> PowerEvaluate(l.num, r.num)

\* get_unknowns()
RECURSIVE get_unknowns(_)
get_unknowns(e) ==
    CASE Class(e) = "Constant" -> {}
      [] Class(e) = "Unknown" -> {e[2]}
      [] OTHER -> get_unknowns(e[2]) \cup get_unknowns(e[3])

\* ----------------------------------------------------------------- format

bracket_wrap(s) == <<"(">> \o s \o <<")">>

RECURSIVE NatStr(_)
NatStr(n) == IF n < 10 THEN <<DigitChar(n)>> ELSE NatStr(n \div 10) \o <<DigitChar(n % 10)>>

\* str(n) of an int
IntStr(n) == IF n < 0 THEN <<"-">> \o NatStr(-n) ELSE NatStr(n)

\* f"{num:g}", for the integral values below a million (no exponent form).
FormatG(num) ==
    CASE IsInteger(num) /\ Abs(num[1]) < 1000000 -> IntStr(num[1])

\* _should_bracket_wrap(parent) of each class; parent is the parent's class
\* or "None".  Subtraction is a subclass of Addition: isinstance(parent,
\* Addition) holds of both, type(parent) != Addition of all but Addition.
ShouldBracketWrap(e, parent) ==
    CASE Class(e) \in {"Addition", "Subtraction"} ->
            parent # "None" /\ parent # "Addition"
      [] Class(e) = "Product" ->
            parent # "None" /\ parent \notin {"Addition", "Subtraction", "Product"}
      [] Class(e) = "Quotient" -> parent \in {"Product", "Power"}
      [] OTHER -> FALSE

\* Power._format's exponent part, formatted being power.format(self).
PowerSuffix(power, formatted) ==
    IF Class(power) = "Constant" /\ IsInteger(power[2])
    THEN LET s == IntStr(power[2][1])
         IN  [i \in 1..Len(s) |-> SUPERSCRIPTS(s[i])]
    ELSE <<"^">> \o formatted

\* format(parent): _format wrapped in brackets when _should_bracket_wrap.
RECURSIVE Format(_, _)
Format(e, parent) ==
    LET l == Format(e[2], Class(e))
        r == Format(e[3], Class(e))
        s == CASE Class(e) = "Constant" -> FormatG(e[2])
               [] Class(e) = "Unknown" -> e[2]
               [] Class(e) = "Addition" -> l \o <<" ", "+", " ">> \o r
               [] Class(e) = "Subtraction" -> l \o <<" ", "-", " ">> \o r
               [] Class(e) = "Product" -> l \o <<"bullet">> \o r
               [] Class(e) = "Quotient" -> l \o <<" ", "/", " ">> \o r
               [] Class(e) = "Power" -> l \o PowerSuffix(e[3], r)
    IN  IF ShouldBracketWrap(e, parent) THEN bracket_wrap(s) ELSE s

\* ------------------------------------------------------------------ inputs

\* Characters typed at the prompt: a digit, the point, a letter, brackets, one
\* operator of each precedence tier, a space and an unrecognised character.
Alphabet == {"1", ".", "a", "(", ")", "+", "*", "^", " ", "#"}

\* Every text of at most n characters.
TextsUpTo(n) == UNION {[1..k -> Alphabet] : k \in 0..n}

Leaves == {Constant(Whole(0)), Constant(Whole(1)), Constant(Whole(2)), Unknown(<<"x">>)}

\* Exponents with exactly k operator nodes: sums, differences and products,
\* whose values are whole numbers, so that ** stays exact.
RECURSIVE ExponentsOf(_)
ExponentsOf(k) ==
    IF k = 0 THEN Leaves
    ELSE LET smaller == [i \in 0..(k - 1) |-> ExponentsOf(i)]
         IN  UNION {
               {<<c, l, r>> : c \in {"Addition", "Subtraction", "Product"},
                              l \in smaller[i], r \in smaller[k - 1 - i]} : i \in 0..(k - 1)}

\* Trees with exactly k operator nodes.
RECURSIVE TreesOf(_)
TreesOf(k) ==
    IF k = 0 THEN Leaves
    ELSE LET smaller == [i \in 0..(k - 1) |-> TreesOf(i)]
         IN  UNION {
               {<<c, l, r>> : c \in {"Addition", "Subtraction", "Product", "Quotient"},
                              l \in smaller[i], r \in smaller[k - 1 - i]}
               \cup {Power(base, power) : base \in smaller[i],
                                          power \in ExponentsOf(k - 1 - i)}
               : i \in 0..(k - 1)}

\* e is a tree of exactly k operator nodes (TreesOf(k), without building it).
HasNodes(e, k) ==
    IF k = 0 THEN e \in Leaves
    ELSE \E i \in 0..(k - 1) :
           \/ \E c \in {"Addition", "Subtraction", "Product", "Quotient"} :
                \E l \in TreesOf(i), r \in TreesOf(k - 1 - i) : e = <<c, l, r>>
           \/ \E base \in TreesOf(i), power \in ExponentsOf(k - 1 - i) :
                e = Power(base, power)

\* Values substituted for the unknown.
XValues == {0, 1, 2}

NoResult == [err |-> "none", tree |-> NoTree, current |-> 0]

NoValue == [err |-> "none", num |-> Whole(0)]

\* ------------------------------------------------------------ the program

Idle ==
    /\ rawTokens = <<>> /\ tokens = <<>> /\ parsed = NoResult
    /\ self = NoTree /\ a = NoTree /\ b = NoTree /\ passes = 0
    /\ simplified = <<>> /\ diff = NoTree /\ m = <<>> /\ value = NoValue

\* A line of text read at the prompt, about to go through parse_text.
InitText == pc = "text" /\ text \in TextsUpTo(MaxLen) /\ expr = NoTree /\ Idle

\* A hand-built expression tree.
InitTree == pc = "ready" /\ text = <<>> /\ (\E k \in 0..MaxNodes : HasNodes(expr, k)) /\ Idle

\* Scanner(text).scan_tokens(): both loops, or the ValueError float() raises.
ScanTokens ==
    /\ pc = "text"
    /\ LET r == ScanLoop(text, 0, <<>>)
       IN  IF r.err # "none"
           THEN /\ pc' = "scanError"
                /\ UNCHANGED <<rawTokens, tokens>>
           ELSE /\ pc' = "scanned"
                /\ rawTokens' = r.toks
                /\ tokens' = InsertLoop(r.toks, 1, <<>>)
    /\ UNCHANGED <<text, parsed, expr, self, a, b, passes, simplified, diff, m, value>>

\* Parser(tokens).expression(), as parse_text calls it on the scanned tokens.
ParseExpression ==
    /\ pc = "scanned"
    /\ parsed' = Expression(tokens)
    /\ pc' = "parsed"
    /\ UNCHANGED <<text, rawTokens, tokens, expr, self, a, b, passes, simplified,
                   diff, m, value>>

\* expr.evaluate(unknown_map), every unknown of expr given the value v.
EvaluateExpr ==
    /\ pc = "ready"
    /\ \E v \in XValues :
          /\ m' = [n \in get_unknowns(expr) |-> Whole(v)]
          /\ value' = Evaluate(expr, m')
    /\ pc' = "evaluated"
    /\ UNCHANGED <<text, rawTokens, tokens, parsed, expr, self, a, b, passes,
                   simplified, diff>>

\* expr.differentiate()
DifferentiateExpr ==
    /\ pc = "ready"
    /\ diff' = Differentiate(expr)
    /\ pc' = "differentiated"
    /\ UNCHANGED <<text, rawTokens, tokens, parsed, expr, self, a, b, passes,
                   simplified, m, value>>

\* The passes simplify() may still run on a tree: each pass but the last
\* removes a node.
PassLimit(e) == Size(e) + 2

\* simplify() is called on expr, and then on what that call returned:
\* a = self._simplify(); b = a._simplify()
SimplifyCall ==
    /\ \/ pc = "ready" /\ self' = expr
       \/ pc = "simplified" /\ Len(simplified) = 1 /\ self' = simplified[1]
    /\ a' = _simplify(self')
    /\ b' = _simplify(a')
    /\ passes' = 2
    /\ pc' = "simplifying"
    /\ UNCHANGED <<text, rawTokens, tokens, parsed, expr, simplified, diff, m, value>>

\* while a != b: a, b = b, b._simplify()
SimplifyLoop ==
    /\ pc = "simplifying"
    /\ a # b
    /\ passes < PassLimit(self)
    /\ a' = b
    /\ b' = _simplify(b)
    /\ passes' = passes + 1
    /\ UNCHANGED <<pc, text, rawTokens, tokens, parsed, expr, self, simplified, diff,
                   m, value>>

\* return a
SimplifyReturn ==
    /\ pc = "simplifying"
    /\ a = b
    /\ simplified' = Append(simplified, a)
    /\ pc' = "simplified"
    /\ UNCHANGED <<text, rawTokens, tokens, parsed, expr, self, a, b, passes, diff,
                   m, value>>

\* expr.format(), the string then given to parse_text.
FormatExpr ==
    /\ pc = "ready"
    /\ text' = Format(expr, "None")
    /\ pc' = "text"
    /\ UNCHANGED <<rawTokens, tokens, parsed, expr, self, a, b, passes, simplified,
                   diff, m, value>>

NextText == ScanTokens \/ ParseExpression

NextTree ==
    \/ EvaluateExpr \/ DifferentiateExpr
    \/ SimplifyCall \/ SimplifyLoop \/ SimplifyReturn
    \/ FormatExpr \/ ScanTokens \/ ParseExpression

\* parse_text on every short text.
SpecText == InitText /\ [][NextText]_vars

\* The tree algorithms on every small tree, format feeding parse_text.
SpecTree == InitTree /\ [][NextTree]_vars

\* ----------------------------------------------------------------- claims

\* The substitution giving every unknown of e the value v.
Covering(e, v) == [n \in get_unknowns(e) |-> Whole(v)]

\* C1: formatting a tree and parsing the string back gives a tree that
\* evaluates as the tree does, under every substitution covering it.
C1_RoundTripEvaluates ==
    expr # NoTree =>
        /\ pc # "scanError"
        /\ pc = "parsed" =>
              /\ parsed.err = "none"
              /\ \A v \in XValues :
                    Evaluate(parsed.tree, Covering(expr, v))
                        = Evaluate(expr, Covering(expr, v))

\* C2: simplify() ends after a bounded number of _simplify passes (no more
\* than the tree has nodes, plus one), and simplifying its result again
\* returns that result unchanged.
C2_SimplifyFixedPoint ==
    /\ pc = "simplifying" => passes <= Size(self) + 1
    /\ Len(simplified) = 2 => simplified[2] = simplified[1]

\* C2's case: a tree one pass does not finish has been simplified twice.
C2_Witness ==
    /\ Len(simplified) = 2
    /\ simplified[1] # _simplify(expr)
    /\ simplified[1] # expr

\* C3: scan_tokens returns a token sequence for every text; it never fails.
C3_ScanIsTotal == pc # "scanError"

\* C4: evaluating a Quotient whose denominator evaluates to zero returns a
\* value, not an error.
C4_ZeroDenominatorReturns ==
    ( /\ pc = "evaluated"
      /\ Class(expr) = "Quotient"
      /\ Evaluate(expr[2], m).err = "none"
      /\ Evaluate(expr[3], m) = Value(Whole(0)) )
    => value.err = "none"

\* A primary can start at token i.
StartsPrimary(i) ==
    i <= Len(tokens) /\ Kind(tokens[i]) \in {"Numeric", "Char", "OpenBracket"}

\* The grammar needs a primary at token i: at the start, and after an
\* operator or an OpenBracket the parser has read.
PrimaryNeededAt(i) ==
    \/ i = 1
    \/ /\ i - 1 <= parsed.current
       /\ Kind(tokens[i - 1]) \in OperatorKinds \cup {"OpenBracket"}

PrimaryCannotForm ==
    \E i \in 1..(Len(tokens) + 1) : PrimaryNeededAt(i) /\ ~StartsPrimary(i)

ReadOfKind(k) ==
    Cardinality({i \in 1..Len(tokens) : i <= parsed.current /\ Kind(tokens[i]) = k})

\* An OpenBracket was read whose CloseBracket was not.
UnmatchedOpenBracket == ReadOfKind("OpenBracket") # ReadOfKind("CloseBracket")

ImplicitPairs ==
    {<<"Numeric", "Char">>, <<"Numeric", "OpenBracket">>, <<"Char", "OpenBracket">>,
     <<"CloseBracket", "Char">>, <<"CloseBracket", "OpenBracket">>}

Boundary(j) ==
    /\ j \in 1..(Len(rawTokens) - 1)
    /\ <<Kind(rawTokens[j]), Kind(rawTokens[j + 1])>> \in ImplicitPairs

\* Multiply tokens implied before raw token i.
Implied(i) == Cardinality({j \in 1..(i - 1) : Boundary(j)})

\* C6: the tokens returned are the raw tokens, in order and all of them, with
\* one Multiply between each adjacent raw pair of ImplicitPairs and nowhere else.
C6_ImplicitMultiplication ==
    pc \in {"scanned", "parsed"} =>
        /\ Len(tokens) = Len(rawTokens) + Implied(Len(rawTokens) + 1)
        /\ \A i \in 1..Len(rawTokens) :
              /\ tokens[i + Implied(i)] = rawTokens[i]
              /\ (i > 1 /\ Boundary(i - 1)) => tokens[i + Implied(i) - 1] = Multiply

\* C6's case: a scan with a pair that takes a Multiply and a pair that does not.
C6_Witness ==
    /\ pc = "scanned"
    /\ \E j \in 1..Len(rawTokens) : Boundary(j)
    /\ \E j \in 1..(Len(rawTokens) - 1) : ~Boundary(j)

\* The maximal runs of letters of t, from character i on, run being the one open.
RECURSIVE LetterRuns(_, _, _)
LetterRuns(t, i, run) ==
    IF i > Len(t) THEN (IF run = <<>> THEN <<>> ELSE <<run>>)
    ELSE IF IsAlpha(t[i]) THEN LetterRuns(t, i + 1, Append(run, t[i]))
    ELSE (IF run = <<>> THEN <<>> ELSE <<run>>) \o LetterRuns(t, i + 1, <<>>)

IsCharToken(t) == Kind(t) = "Char"

CharNames ==
    LET cs == SelectSeq(rawTokens, IsCharToken)
    IN  [i \in 1..Len(cs) |-> cs[i][2]]

\* C7: each maximal run of letters becomes exactly one Char token, named by
\* the whole run.
C7_MaximalLetterRuns ==
    pc \in {"scanned", "parsed"} => CharNames = LetterRuns(text, 1, <<>>)

\* The tree holds a Power whose exponent is not a Constant.
RECURSIVE HasNonConstantExponent(_)
HasNonConstantExponent(e) ==
    /\ ~IsLeaf(e)
    /\ \/ Class(e) = "Power" /\ Class(e[3]) # "Constant"
       \/ HasNonConstantExponent(e[2])
       \/ HasNonConstantExponent(e[3])

\* A complete tree: every node of a known class, every operand a tree.
RECURSIVE IsTree(_)
IsTree(e) ==
    \/ Class(e) \in {"Constant", "Unknown"} /\ Len(e) = 2
    \/ /\ Class(e) \in {"Addition", "Subtraction", "Product", "Quotient", "Power"}
       /\ Len(e) = 3
       /\ IsTree(e[2])
       /\ IsTree(e[3])

\* C8: differentiate() raises the unsupported-operation error exactly when the
\* tree holds a Power with a non-Constant exponent, and returns a whole tree
\* otherwise: Constant(0) for Power(Constant, Constant), the power rule
\* n * b^(n-1) * b' for Power(b, Constant(n)).
C8_DifferentiatePower ==
    pc = "differentiated" =>
        /\ diff = NotImplementedError <=> HasNonConstantExponent(expr)
        /\ diff # NotImplementedError => IsTree(diff)
        /\ (Class(expr) = "Power" /\ Class(expr[2]) = "Constant"
              /\ Class(expr[3]) = "Constant") => diff = Zero
        /\ (Class(expr) = "Power" /\ Class(expr[2]) # "Constant"
              /\ Class(expr[3]) = "Constant" /\ diff # NotImplementedError)
           => diff = Product(Product(Constant(expr[3][2]),
                                     Power(expr[2],
                                           Constant(RatSub(expr[3][2], Whole(1))))),
                             Differentiate(expr[2]))

\* C8's case: the power rule met a base holding a Power it cannot differentiate.
C8_Witness ==
    /\ pc = "differentiated"
    /\ Class(expr) = "Power"
    /\ Class(expr[3]) = "Constant"
    /\ diff = NotImplementedError

\* Built from Constant, Unknown, Addition, Subtraction and Product only.
RECURSIVE IsPolynomial(_)
IsPolynomial(e) ==
    \/ IsLeaf(e)
    \/ /\ Class(e) \in {"Addition", "Subtraction", "Product"}
       /\ IsPolynomial(e[2])
       /\ IsPolynomial(e[3])

\* C9: simplify() keeps the value of a tree of Constant, Unknown, Addition,
\* Subtraction and Product nodes, under every substitution covering it.
C9_SimplifyKeepsValue ==
    (Len(simplified) >= 1 /\ IsPolynomial(expr)) =>
        \A v \in XValues :
            Evaluate(simplified[1], Covering(expr, v)) = Evaluate(expr, Covering(expr, v))

\* C10: a parse that returns a tree has read every token.
C10_AllTokensRead ==
    (pc = "parsed" /\ parsed.err = "none") => parsed.current = Len(tokens)

====
